---- MODULE Spec2Model ----
(***************************************************************************)
(* Model of the SMC (System Management Controller) client of OptaNative:   *)
(* SMCKeyToUInt32, SMCOpen, SMCClose, SMCGetKeyInfo and SMCReadKey of      *)
(* SMC.c, with the records of SMC.h.                                       *)
(*                                                                         *)
(* Representation.  A uint32_t that is computed by shifts and ors (the     *)
(* encoded key) is a tuple of its four bytes, most significant first, so   *)
(* that it keeps its 32-bit width; a uint32_t that is only copied          *)
(* (dataSize, dataType) is a number.  A C array is a sequence: offset i    *)
(* of the array is element i+1 of the sequence.  A kern_return_t is the    *)
(* name of its IOKit constant.                                             *)
(***************************************************************************)
EXTENDS Integers, Sequences, FiniteSets, TLC

VARIABLES
    pc,          \* where the caller's thread is: "idle", "info_wait", "info_reply", "read_wait", "read_reply", "done"
    op,          \* the entry point being executed: "none", "encode", "open", "close", "getKeyInfo", "readKey"
    conns,       \* the connections the host has open for this task
    conn,        \* io_connect_t argument of the current call
    key,         \* const char *key of SMCReadKey / SMCKeyToUInt32: the string, without its terminator
    keyUInt,     \* uint32_t keyUInt of SMCReadKey, uint32_t key of SMCGetKeyInfo, result of SMCKeyToUInt32
    val,         \* the caller's SMCVal_t that SMCReadKey's val points to
    keyInfo,     \* the SMCKeyData_keyInfo_t that SMCGetKeyInfo's keyInfo points to
    inputData,   \* SMCKeyData_t inputData of SMCReadKey
    outputData,  \* SMCKeyData_t outputData of SMCReadKey
    giInput,     \* SMCKeyData_t inputData of SMCGetKeyInfo
    giOutput,    \* SMCKeyData_t outputData of SMCGetKeyInfo
    result,      \* the kern_return_t of the last service call, and the returned status at "done"
    wire,        \* the IOConnectCallStructMethod calls of the current call, in order
    connOut,     \* the caller's io_connect_t that SMCOpen's conn points to
    osCalls,     \* the IOKit object calls made by the current SMCOpen / SMCClose, in order
    held,        \* the number of io_service_t references this task holds
    atEntry      \* what the caller's val, keyInfo and conn objects held when the current call was entered

vars == <<pc, op, conns, conn, key, keyUInt, val, keyInfo, inputData, outputData,
          giInput, giOutput, result, wire, connOut, osCalls, held, atEntry>>

(***************************************************************************)
(* Bounds of the model.                                                    *)
(***************************************************************************)
MaxKeyLen == 5      \* key strings of 0..MaxKeyLen characters are passed to SMCReadKey
MaxConns == 1       \* the host grants at most this many connections at a time

(***************************************************************************)
(* Constants of SMC.h.                                                     *)
(***************************************************************************)
SMC_KEY_DATA_SIZE == 32
SMC_CMD_READ_BYTES == 5
SMC_CMD_READ_KEYINFO == 9
kSMCHandleYPCEvent == 2

kIOReturnSuccess == "kIOReturnSuccess"
kIOReturnNotFound == "kIOReturnNotFound"
\* The statuses the host's calls are taken to return.
Statuses == {kIOReturnSuccess, kIOReturnNotFound, "kIOReturnNotPrivileged"}

(***************************************************************************)
(* uint32_t arithmetic on four bytes, most significant first.              *)
(***************************************************************************)
RECURSIVE OrBits(_, _, _)
\* a | b on the low n bits
OrBits(a, b, n) ==
    IF n = 0 THEN 0
    ELSE (IF a % 2 = 1 \/ b % 2 = 1 THEN 1 ELSE 0) + 2 * OrBits(a \div 2, b \div 2, n - 1)

\* x | y on uint32_t
Or32(x, y) == [i \in 1..4 |-> OrBits(x[i], y[i], 8)]

\* x << bits on uint32_t, bits a multiple of 8: the bytes shifted out are lost
Shl32(x, bits) == [i \in 1..4 |-> IF i + (bits \div 8) <= 4 THEN x[i + (bits \div 8)] ELSE 0]

\* The mutant of CharToUInt32: char taken as unsigned, no sign extension.
CharToUInt32_unsigned(c) == <<0, 0, 0, c>>

\* (uint32_t)c for a char c holding the byte c.  char is signed on the
\* targets that have IOKit (x86_64 and arm64 macOS): a byte of 128..255 is a
\* negative char, and its conversion to uint32_t sign-extends.
CharToUInt32(c) == IF c >= 128 THEN <<255, 255, 255, c>> ELSE <<0, 0, 0, c>>

\* The mutant of SMCKeyToUInt32: little-endian packing.
SMCKeyToUInt32_swapped(k) ==
    Or32(Or32(Or32(Shl32(CharToUInt32(k[3]), 24), Shl32(CharToUInt32(k[2]), 16)),
              Shl32(CharToUInt32(k[1]), 8)),
         CharToUInt32(k[0]))

\* The mutant of SMCKeyToUInt32: key[1] shifted by 8 like key[2].
SMCKeyToUInt32_shift(k) ==
    Or32(Or32(Or32(Shl32(CharToUInt32(k[0]), 24), Shl32(CharToUInt32(k[1]), 8)),
              Shl32(CharToUInt32(k[2]), 8)),
         CharToUInt32(k[3]))

\* SMCKeyToUInt32(key), k[0..3] being the four chars that key[0..3] reads
SMCKeyToUInt32(k) ==
    Or32(Or32(Or32(Shl32(CharToUInt32(k[0]), 24), Shl32(CharToUInt32(k[1]), 16)),
              Shl32(CharToUInt32(k[2]), 8)),
         CharToUInt32(k[3]))

(***************************************************************************)
(* The records of SMC.h, and what memset(.., 0, ..) leaves in them.        *)
(***************************************************************************)
ZeroBytes == [i \in 1..SMC_KEY_DATA_SIZE |-> 0]

ZeroKeyInfo == [dataSize |-> 0, dataType |-> 0, dataAttributes |-> 0]

ZeroKeyData ==
    [key |-> <<0, 0, 0, 0>>,
     vers |-> [major |-> 0, minor |-> 0, build |-> 0, reserved |-> 0, release |-> 0],
     pLimitData |-> [version |-> 0, length |-> 0, cpuPLimit |-> 0, gpuPLimit |-> 0, memPLimit |-> 0],
     keyInfo |-> ZeroKeyInfo,
     result |-> 0, status |-> 0, data8 |-> 0, data32 |-> 0,
     bytes |-> ZeroBytes]

ZeroVal == [key |-> <<0, 0, 0, 0, 0>>, dataSize |-> 0, dataType |-> 0, bytes |-> ZeroBytes]

\* The mutant of Memset: the memset is missing, the object keeps what it held.
Memset_missing(obj, zero) == obj

\* memset(&obj, 0, sizeof(obj)): zero is the all-zero value of obj's type
Memset(obj, zero) == zero

(***************************************************************************)
(* The inputs the model draws from.                                        *)
(***************************************************************************)
\* "TC0PZ" followed by bytes at and above the end of the ASCII range
SampleBytes == <<84, 67, 48, 80, 90, 127, 128, 255>>

\* The n characters of SampleBytes from position s on, cyclically.
KeyAt(s, n) == [i \in 1..n |-> SampleBytes[((s + i - 2) % Len(SampleBytes)) + 1]]

\* Key strings handed to SMCReadKey: 0..MaxKeyLen characters, none of them NUL.
KeyStrings == {KeyAt(s, n) : s \in 1..Len(SampleBytes), n \in 0..MaxKeyLen} \cup {<<90, 90, 90, 90>>}

\* Four chars handed to SMCKeyToUInt32, as functions on 0..3.
FourChars == [0..3 -> {SampleBytes[i] : i \in 1..Len(SampleBytes)}]

\* What a read past the terminator of a short string can find.
StrayBytes == {0, 65}

\* What key[0..3] reads for the string s: its characters, its terminator, and
\* past the terminator whatever the memory holds.
KeyMemory(s) ==
    { [i \in 0..3 |-> IF i < Len(s) THEN s[i + 1] ELSE IF i = Len(s) THEN 0 ELSE g[i]] :
        g \in [0..3 -> StrayBytes] }

\* A buffer of SMC_KEY_DATA_SIZE bytes, all distinct and none zero.
CountBytes == [i \in 1..SMC_KEY_DATA_SIZE |-> i]
SampleBuffers == {ZeroBytes, CountBytes}

\* Key metadata the service reports: nothing, or 4 bytes of type "flt ".
SampleKeyInfos ==
    {ZeroKeyInfo,
     [dataSize |-> 4, dataType |-> 1718383648, dataAttributes |-> 128]}

\* What the service can leave in the response record.
Responses == {[ZeroKeyData EXCEPT !.keyInfo = i, !.bytes = b] : i \in SampleKeyInfos, b \in SampleBuffers}

\* What an object the caller hands in, or a local not yet set, can hold.
DirtyVal == [key |-> <<88, 88, 88, 88, 88>>, dataSize |-> 7, dataType |-> 9, bytes |-> [i \in 1..SMC_KEY_DATA_SIZE |-> 170]]
PriorVals == {ZeroVal, DirtyVal}
DirtyKeyInfo == [dataSize |-> 7, dataType |-> 9, dataAttributes |-> 3]
PriorKeyInfos == {ZeroKeyInfo, DirtyKeyInfo}
DirtyKeyData == [ZeroKeyData EXCEPT !.key = <<1, 2, 3, 4>>, !.keyInfo = DirtyKeyInfo, !.data8 = 6,
                                    !.data32 = 77, !.bytes = [i \in 1..SMC_KEY_DATA_SIZE |-> 170]]
StackKeyData == {ZeroKeyData, DirtyKeyData}

\* Encoded keys handed to SMCGetKeyInfo when it is called on its own.
SampleEncodedKeys == {SMCKeyToUInt32(k) : k \in {[i \in 0..3 |-> KeyAt(s, 4)[i + 1]] : s \in 1..Len(SampleBytes)}}

\* What the caller's io_connect_t can hold before SMCOpen.
PriorConnOuts == {0, 99}

(***************************************************************************)
(* The steps of the code, as operators.                                    *)
(***************************************************************************)
\* The mutant of Strncpy: one char too few is copied.
Strncpy_short(dst, s, n) ==
    [i \in 1..Len(dst) |-> IF i <= n - 1 THEN (IF i <= Len(s) THEN s[i] ELSE 0) ELSE dst[i]]

\* strncpy(dst, s, n): the first n chars of s, padded with NUL up to n when s is shorter
Strncpy(dst, s, n) ==
    [i \in 1..Len(dst) |-> IF i <= n THEN (IF i <= Len(s) THEN s[i] ELSE 0) ELSE dst[i]]

\* SMC.c 88-92: val zeroed, the key name copied and terminated at offset 4
ValAtEntry(v, s) ==
    LET zeroed == Memset(v, ZeroVal)
        copied == [zeroed EXCEPT !.key = Strncpy(zeroed.key, s, 4)]
    IN  [copied EXCEPT !.key[5] = 0]

\* SMC.c 52-56: the request of SMCGetKeyInfo
KeyInfoRequest(stack, k) ==
    [Memset(stack, ZeroKeyData) EXCEPT !.key = k, !.data8 = SMC_CMD_READ_KEYINFO]

\* The mutant of KeyInfoAfterCall: the response is copied whatever the status.
KeyInfoAfterCall_always(ki, st, out) ==
    [ki EXCEPT !.dataSize = out.keyInfo.dataSize,
               !.dataType = out.keyInfo.dataType,
               !.dataAttributes = out.keyInfo.dataAttributes]

\* SMC.c 67-71: the caller's keyInfo after the service call of SMCGetKeyInfo
KeyInfoAfterCall(ki, st, out) ==
    IF st = kIOReturnSuccess
    THEN [ki EXCEPT !.dataSize = out.keyInfo.dataSize,
                    !.dataType = out.keyInfo.dataType,
                    !.dataAttributes = out.keyInfo.dataAttributes]
    ELSE ki

\* The mutant of KeyInfoFailed: the status of SMCGetKeyInfo is not looked at.
KeyInfoFailed_ignored(st) == FALSE

\* SMC.c 99: SMCReadKey returns early
KeyInfoFailed(st) == st # kIOReturnSuccess

\* The mutant of ValAfterKeyInfo: the metadata is not recorded in val.
ValAfterKeyInfo_missing(v, ki) == v

\* SMC.c 103-104
ValAfterKeyInfo(v, ki) == [v EXCEPT !.dataSize = ki.dataSize, !.dataType = ki.dataType]

\* The mutant of ReadRequest: the whole keyInfo is put in the request.
ReadRequest_wholeInfo(in, k, ki) ==
    [in EXCEPT !.key = k, !.data8 = SMC_CMD_READ_BYTES, !.keyInfo = ki]

\* SMC.c 107-109: the request of the value read, on the inputData zeroed at entry
ReadRequest(in, k, ki) ==
    [in EXCEPT !.key = k, !.data8 = SMC_CMD_READ_BYTES, !.keyInfo.dataSize = ki.dataSize]

\* The mutant of ValAfterRead: only the first dataSize bytes are copied.
ValAfterRead_sized(v, st, out) ==
    IF st = kIOReturnSuccess
    THEN [v EXCEPT !.bytes = [i \in 1..SMC_KEY_DATA_SIZE |-> IF i <= v.dataSize THEN out.bytes[i] ELSE v.bytes[i]]]
    ELSE v

\* The mutant of ValAfterRead: the response is copied whatever the status.
ValAfterRead_always(v, st, out) == [v EXCEPT !.bytes = out.bytes]

\* SMC.c 120-122: memcpy(val->bytes, outputData.bytes, sizeof(val->bytes)) on success
ValAfterRead(v, st, out) ==
    IF st = kIOReturnSuccess THEN [v EXCEPT !.bytes = out.bytes] ELSE v

\* One IOConnectCallStructMethod call, as it is made: no status yet.
WireCall(c, in, out) ==
    [conn |-> c, selector |-> kSMCHandleYPCEvent, input |-> in, output0 |-> out,
     status |-> "pending", output |-> out]

(***************************************************************************)
(* The state before the first call.                                        *)
(***************************************************************************)
\* The call-local part of the state when no call is in progress.
NoCallState ==
    [pc |-> "idle", op |-> "none", conn |-> 0, key |-> <<>>, keyUInt |-> <<0, 0, 0, 0>>,
     val |-> ZeroVal, keyInfo |-> ZeroKeyInfo, inputData |-> ZeroKeyData,
     outputData |-> ZeroKeyData, giInput |-> ZeroKeyData, giOutput |-> ZeroKeyData,
     result |-> kIOReturnSuccess, wire |-> <<>>, connOut |-> 0, osCalls |-> <<>>,
     atEntry |-> [val |-> ZeroVal, keyInfo |-> ZeroKeyInfo, connOut |-> 0]]

Init ==
    /\ pc = NoCallState.pc
    /\ op = NoCallState.op
    /\ conn = NoCallState.conn
    /\ key = NoCallState.key
    /\ keyUInt = NoCallState.keyUInt
    /\ val = NoCallState.val
    /\ keyInfo = NoCallState.keyInfo
    /\ inputData = NoCallState.inputData
    /\ outputData = NoCallState.outputData
    /\ giInput = NoCallState.giInput
    /\ giOutput = NoCallState.giOutput
    /\ result = NoCallState.result
    /\ wire = NoCallState.wire
    /\ connOut = NoCallState.connOut
    /\ osCalls = NoCallState.osCalls
    /\ atEntry = NoCallState.atEntry
    /\ conns = {}
    /\ held = 0

(***************************************************************************)
(* SMCKeyToUInt32, called on its own.                                      *)
(***************************************************************************)
KeyToUInt32_Call ==
    /\ pc = "idle"
    /\ \E k \in FourChars :
        /\ key' = <<k[0], k[1], k[2], k[3]>>
        /\ keyUInt' = SMCKeyToUInt32(k)
    /\ op' = "encode"
    /\ pc' = "done"
    /\ UNCHANGED <<conns, conn, val, keyInfo, inputData, outputData, giInput, giOutput,
                   result, wire, connOut, osCalls, held, atEntry>>

(***************************************************************************)
(* SMCOpen and SMCClose.  The IOKit calls are the host's: what they return *)
(* is drawn from what the host can return.                                 *)
(***************************************************************************)
\* What IOServiceGetMatchingService can return: 0 when no AppleSMC service is
\* registered, the io_service_t of the service otherwise.
MatchingServices == {0, 1}

OsCall(name, obj) == [call |-> name, object |-> obj]

\* The mutant of ServiceMissing: the lookup's result is not looked at.
ServiceMissing_ignored(service) == FALSE

\* SMC.c 29
ServiceMissing(service) == service = 0

\* The mutant of OpenCalls: the service reference is not released.
OpenCalls_leak(service) == <<OsCall("IOServiceOpen", service)>>

\* SMC.c 34-35: the IOKit calls of SMCOpen once the service is found
OpenCalls(service) == <<OsCall("IOServiceOpen", service), OsCall("IOObjectRelease", service)>>

\* The number of io_service_t references that the calls give back.
Released(calls) ==
    Cardinality({i \in DOMAIN calls : calls[i].call = "IOObjectRelease" /\ calls[i].object # 0})

\* The connection handle the host hands out next.
FreshConn == CHOOSE h \in (1..MaxConns) \ conns : \A g \in (1..MaxConns) \ conns : h <= g

SMCOpen ==
    /\ pc = "idle"
    /\ \E prior \in PriorConnOuts, service \in MatchingServices :
        /\ atEntry' = [atEntry EXCEPT !.connOut = prior]
        \* SMC.c 26-27: a found service is a reference this task now holds
        /\ service # 0 => held <= MaxConns
        /\ LET lookup == OsCall("IOServiceGetMatchingService", service)
               got == IF service # 0 THEN held + 1 ELSE held
           IN  IF ServiceMissing(service)
               THEN \* SMC.c 29-31
                    /\ result' = kIOReturnNotFound
                    /\ connOut' = prior
                    /\ conns' = conns
                    /\ osCalls' = <<lookup>>
                    /\ held' = got
               ELSE \* SMC.c 34-37
                    /\ \E st \in Statuses :
                        /\ result' = st
                        /\ IF st = kIOReturnSuccess
                           THEN /\ service # 0
                                /\ Cardinality(conns) < MaxConns
                                /\ connOut' = FreshConn
                                /\ conns' = conns \cup {FreshConn}
                           ELSE /\ connOut' \in {prior, 0}
                                /\ conns' = conns
                    /\ osCalls' = <<lookup>> \o OpenCalls(service)
                    /\ held' = got - Released(OpenCalls(service))
    /\ op' = "open"
    /\ pc' = "done"
    /\ UNCHANGED <<conn, key, keyUInt, val, keyInfo, inputData, outputData, giInput,
                   giOutput, wire>>

\* The connections a caller can pass: the null handle and the open ones.
ConnArgs == {0} \cup conns

SMCClose ==
    /\ pc = "idle"
    /\ \E c \in 0..MaxConns :
        /\ conn' = c
        /\ osCalls' = <<OsCall("IOServiceClose", c)>>
        \* SMC.c 42: the status is IOServiceClose's
        /\ IF c \in conns
           THEN /\ result' = kIOReturnSuccess
                /\ conns' = conns \ {c}
           ELSE /\ result' \in Statuses \ {kIOReturnSuccess}
                /\ conns' = conns
    /\ op' = "close"
    /\ pc' = "done"
    /\ UNCHANGED <<key, keyUInt, val, keyInfo, inputData, outputData, giInput, giOutput,
                   wire, connOut, held, atEntry>>

(***************************************************************************)
(* The service call.  IOConnectCallStructMethod blocks until the host      *)
(* answers with a status, having written the response record in place.     *)
(***************************************************************************)
ServiceReply ==
    /\ pc \in {"info_wait", "read_wait"}
    /\ \E st \in Statuses, r \in Responses :
        /\ result' = st
        /\ wire' = [wire EXCEPT ![Len(wire)].status = st, ![Len(wire)].output = r]
        /\ IF pc = "info_wait"
           THEN giOutput' = r /\ outputData' = outputData
           ELSE outputData' = r /\ giOutput' = giOutput
    /\ pc' = IF pc = "info_wait" THEN "info_reply" ELSE "read_reply"
    /\ UNCHANGED <<op, conns, conn, key, keyUInt, val, keyInfo, inputData, giInput,
                   connOut, osCalls, held, atEntry>>

(***************************************************************************)
(* SMCGetKeyInfo, called on its own.                                       *)
(***************************************************************************)
SMCGetKeyInfo_Call ==
    /\ pc = "idle"
    /\ \E c \in ConnArgs, k \in SampleEncodedKeys, ki \in PriorKeyInfos, stack \in StackKeyData :
        /\ conn' = c
        /\ keyUInt' = k
        /\ keyInfo' = ki
        /\ atEntry' = [atEntry EXCEPT !.keyInfo = ki]
        \* SMC.c 47-65
        /\ giInput' = KeyInfoRequest(stack, k)
        /\ giOutput' = Memset(stack, ZeroKeyData)
        /\ wire' = <<WireCall(c, giInput', giOutput')>>
    /\ op' = "getKeyInfo"
    /\ pc' = "info_wait"
    /\ UNCHANGED <<conns, key, val, inputData, outputData, result, connOut, osCalls, held>>

SMCGetKeyInfo_Return ==
    /\ pc = "info_reply"
    /\ op = "getKeyInfo"
    \* SMC.c 67-73
    /\ keyInfo' = KeyInfoAfterCall(keyInfo, result, giOutput)
    /\ pc' = "done"
    /\ UNCHANGED <<op, conns, conn, key, keyUInt, val, inputData, outputData, giInput,
                   giOutput, result, wire, connOut, osCalls, held, atEntry>>

(***************************************************************************)
(* SMCReadKey.                                                             *)
(***************************************************************************)
\* SMC.c 78-98, and SMCGetKeyInfo up to its service call
SMCReadKey_Call ==
    /\ pc = "idle"
    /\ \E c \in ConnArgs, s \in KeyStrings, v \in PriorVals, stack \in StackKeyData,
          ski \in PriorKeyInfos :
        \E mem \in KeyMemory(s) :
            /\ conn' = c
            /\ key' = s
            /\ atEntry' = [atEntry EXCEPT !.val = v]
            /\ inputData' = Memset(stack, ZeroKeyData)
            /\ outputData' = Memset(stack, ZeroKeyData)
            /\ keyInfo' = Memset(ski, ZeroKeyInfo)
            /\ val' = ValAtEntry(v, s)
            /\ keyUInt' = SMCKeyToUInt32(mem)
            /\ giInput' = KeyInfoRequest(stack, keyUInt')
            /\ giOutput' = Memset(stack, ZeroKeyData)
            /\ wire' = <<WireCall(c, giInput', giOutput')>>
    /\ op' = "readKey"
    /\ pc' = "info_wait"
    /\ UNCHANGED <<conns, result, connOut, osCalls, held>>

\* SMCGetKeyInfo from its service call on, and SMC.c 99-118
SMCReadKey_AfterKeyInfo ==
    /\ pc = "info_reply"
    /\ op = "readKey"
    /\ keyInfo' = KeyInfoAfterCall(keyInfo, result, giOutput)
    /\ IF KeyInfoFailed(result)
       THEN /\ pc' = "done"
            /\ UNCHANGED <<val, inputData, wire>>
       ELSE /\ val' = ValAfterKeyInfo(val, keyInfo')
            /\ inputData' = ReadRequest(inputData, keyUInt, keyInfo')
            /\ wire' = Append(wire, WireCall(conn, inputData', outputData))
            /\ pc' = "read_wait"
    /\ UNCHANGED <<op, conns, conn, key, keyUInt, outputData, giInput, giOutput, result,
                   connOut, osCalls, held, atEntry>>

\* The mutant of SMCReadKey_Return: a failed value read is sent again, once.
SMCReadKey_Return_retry ==
    /\ pc = "read_reply"
    /\ IF result # kIOReturnSuccess /\ Len(wire) < 3
       THEN /\ wire' = Append(wire, WireCall(conn, inputData, outputData))
            /\ pc' = "read_wait"
            /\ val' = val
       ELSE /\ val' = ValAfterRead(val, result, outputData)
            /\ pc' = "done"
            /\ wire' = wire
    /\ UNCHANGED <<op, conns, conn, key, keyUInt, keyInfo, inputData, outputData, giInput,
                   giOutput, result, connOut, osCalls, held, atEntry>>

\* SMC.c 120-124
SMCReadKey_Return ==
    /\ pc = "read_reply"
    /\ val' = ValAfterRead(val, result, outputData)
    /\ pc' = "done"
    /\ UNCHANGED <<op, conns, conn, key, keyUInt, keyInfo, inputData, outputData, giInput,
                   giOutput, result, wire, connOut, osCalls, held, atEntry>>

(***************************************************************************)
(* The caller goes on after a call has returned: the call's arguments,     *)
(* locals and results are no longer part of the state.                     *)
(***************************************************************************)
CallerContinues ==
    /\ pc = "done"
    /\ pc' = NoCallState.pc
    /\ op' = NoCallState.op
    /\ conn' = NoCallState.conn
    /\ key' = NoCallState.key
    /\ keyUInt' = NoCallState.keyUInt
    /\ val' = NoCallState.val
    /\ keyInfo' = NoCallState.keyInfo
    /\ inputData' = NoCallState.inputData
    /\ outputData' = NoCallState.outputData
    /\ giInput' = NoCallState.giInput
    /\ giOutput' = NoCallState.giOutput
    /\ result' = NoCallState.result
    /\ wire' = NoCallState.wire
    /\ connOut' = NoCallState.connOut
    /\ osCalls' = NoCallState.osCalls
    /\ atEntry' = NoCallState.atEntry
    /\ UNCHANGED <<conns, held>>

Next ==
    \/ KeyToUInt32_Call
    \/ SMCOpen
    \/ SMCClose
    \/ SMCGetKeyInfo_Call
    \/ SMCGetKeyInfo_Return
    \/ SMCReadKey_Call
    \/ SMCReadKey_AfterKeyInfo
    \/ SMCReadKey_Return
    \/ ServiceReply
    \/ CallerContinues

Spec == Init /\ [][Next]_vars

\* The calls are synchronous: a service call that was made returns, and the
\* thread that is past a service call runs the rest of its function.
FairSpec ==
    /\ Spec
    /\ WF_vars(ServiceReply)
    /\ WF_vars(SMCGetKeyInfo_Return)
    /\ WF_vars(SMCReadKey_AfterKeyInfo)
    /\ WF_vars(SMCReadKey_Return)

(***************************************************************************)
(* Properties of SMCReadKey.                                               *)
(***************************************************************************)
ReadKeyReturned == op = "readKey" /\ pc = "done"

\* The metadata call and the value-read call of the current SMCReadKey.
MetadataFailed == Len(wire) >= 1 /\ wire[1].status \notin {"pending", kIOReturnSuccess}
MetadataSucceeded == Len(wire) >= 1 /\ wire[1].status = kIOReturnSuccess
ReadFailed == Len(wire) >= 2 /\ wire[2].status \notin {"pending", kIOReturnSuccess}
ReadSucceeded == Len(wire) >= 2 /\ wire[2].status = kIOReturnSuccess

\* C1: when the metadata query (command 9) of SMCReadKey returns a non-success
\* status, SMCReadKey returns that status and the 32 bytes of val->bytes are
\* zero, whatever the key and whatever val held before.
C1_MetadataFailure ==
    (ReadKeyReturned /\ wire[1].input.data8 = SMC_CMD_READ_KEYINFO /\ MetadataFailed)
        => /\ result = wire[1].status
           /\ \A i \in 1..SMC_KEY_DATA_SIZE : val.bytes[i] = 0

\* C1 happens: a metadata query failed whose response record carried bytes,
\* for a val that was not zero at entry.
C1_Witness ==
    /\ ReadKeyReturned
    /\ MetadataFailed
    /\ wire[1].output.bytes = CountBytes
    /\ atEntry.val = DirtyVal

\* C2: in one SMCReadKey the value-read request (command 5) is sent only after a
\* metadata request (command 9) for the same encoded key has returned success;
\* after a failed metadata request no value-read request is sent.
C2_ReadOnlyAfterMetadata ==
    op = "readKey" =>
        /\ \A i \in 1..Len(wire) :
            wire[i].input.data8 = SMC_CMD_READ_BYTES =>
                \E j \in 1..(i - 1) :
                    /\ wire[j].input.data8 = SMC_CMD_READ_KEYINFO
                    /\ wire[j].input.key = wire[i].input.key
                    /\ wire[j].status = kIOReturnSuccess
        /\ (\E j \in 1..Len(wire) :
                /\ wire[j].input.data8 = SMC_CMD_READ_KEYINFO
                /\ wire[j].status \notin {"pending", kIOReturnSuccess})
            => \A i \in 1..Len(wire) : wire[i].input.data8 # SMC_CMD_READ_BYTES

\* C2 happens: a value-read request is on the wire.
C2_Witness ==
    /\ op = "readKey"
    /\ pc = "read_wait"
    /\ wire[Len(wire)].input.data8 = SMC_CMD_READ_BYTES
    /\ wire[Len(wire)].status = "pending"

\* C3: when the metadata query succeeds and the value read returns a non-success
\* status, SMCReadKey returns the value read's status, and val's dataSize and
\* dataType are the ones the metadata response reported.
C3_ReadFailure ==
    (ReadKeyReturned /\ MetadataSucceeded /\ ReadFailed)
        => /\ result = wire[2].status
           /\ val.dataSize = wire[1].output.keyInfo.dataSize
           /\ val.dataType = wire[1].output.keyInfo.dataType

\* C3 happens: the value read failed for a key whose metadata is not zero.
C3_Witness ==
    /\ ReadKeyReturned
    /\ MetadataSucceeded
    /\ ReadFailed
    /\ wire[1].output.keyInfo.dataSize = 4
    /\ atEntry.val = DirtyVal

\* C4 as stated: whenever SMCReadKey returns a non-success status, every field of
\* val but the key is zero: dataSize = 0, dataType = 0 and the 32 bytes = 0.
C4_AllZeroOnFailure ==
    (ReadKeyReturned /\ result # kIOReturnSuccess)
        => /\ val.dataSize = 0
           /\ val.dataType = 0
           /\ val.bytes = ZeroBytes

\* C4 as amended: whenever SMCReadKey returns a non-success status, the 32 bytes
\* of val are zero; dataSize and dataType are zero when the metadata query
\* failed, and are those of the metadata response when the value read failed.
C4_ZeroOnFailure ==
    (ReadKeyReturned /\ result # kIOReturnSuccess)
        => /\ val.bytes = ZeroBytes
           /\ MetadataFailed => (val.dataSize = 0 /\ val.dataType = 0 /\ Len(wire) = 1)
           /\ ~MetadataFailed =>
                /\ ReadFailed
                /\ val.dataSize = wire[1].output.keyInfo.dataSize
                /\ val.dataType = wire[1].output.keyInfo.dataType

\* C4 happens: the value read failed and left bytes in its response record.
C4_Witness ==
    /\ ReadKeyReturned
    /\ result # kIOReturnSuccess
    /\ ReadFailed
    /\ wire[2].output.bytes = CountBytes
    /\ wire[1].output.keyInfo.dataSize = 4

\* C5: when both service calls of SMCReadKey succeed, val->bytes is the 32 bytes
\* of the value-read response, whatever dataSize is, and val's dataSize and
\* dataType are those of the metadata response, whatever val held before.
C5_Success ==
    (ReadKeyReturned /\ MetadataSucceeded /\ ReadSucceeded)
        => /\ \A i \in 1..SMC_KEY_DATA_SIZE : val.bytes[i] = wire[2].output.bytes[i]
           /\ Len(val.bytes) = SMC_KEY_DATA_SIZE
           /\ val.dataSize = wire[1].output.keyInfo.dataSize
           /\ val.dataType = wire[1].output.keyInfo.dataType

\* C5 happens: a success with dataSize 4 and 32 non-zero bytes in the response.
C5_Witness ==
    /\ ReadKeyReturned
    /\ MetadataSucceeded
    /\ ReadSucceeded
    /\ wire[1].output.keyInfo.dataSize = 4
    /\ wire[2].output.bytes = CountBytes
    /\ atEntry.val = DirtyVal

(***************************************************************************)
(* Properties of SMCKeyToUInt32.  The value of a uint32_t held as four     *)
(* bytes is Hi16 * 2^16 + Lo16.                                            *)
(***************************************************************************)
Hi16(w) == w[1] * 256 + w[2]
Lo16(w) == w[3] * 256 + w[4]

EncodeReturned == op = "encode" /\ pc = "done"
IsAscii(k) == \A i \in 1..Len(k) : k[i] <= 127

\* C6: for a 4-character key of bytes 0..127, SMCKeyToUInt32 returns
\* b0*2^24 + b1*2^16 + b2*2^8 + b3; encode("TC0P") = 0x54433050.
C6_BigEndianPacking ==
    (EncodeReturned /\ IsAscii(key))
        => /\ Hi16(keyUInt) = key[1] * 256 + key[2]
           /\ Lo16(keyUInt) = key[3] * 256 + key[4]
           /\ key = <<84, 67, 48, 80>> => (Hi16(keyUInt) = 21571 /\ Lo16(keyUInt) = 12368)

\* C6 happens: "TC0P" has been encoded.
C6_Witness == EncodeReturned /\ key = <<84, 67, 48, 80>> /\ Hi16(keyUInt) = 21571

\* The four bytes of a uint32_t, most significant first.
SplitUInt32(w) ==
    <<Hi16(w) \div 256, Hi16(w) % 256, Lo16(w) \div 256, Lo16(w) % 256>>

AsciiFourChars == {k \in FourChars : \A i \in 0..3 : k[i] <= 127}

\* Every 4-character ASCII key of the model with its SMCKeyToUInt32.
AsciiEncodings == {<<<<k[0], k[1], k[2], k[3]>>, SMCKeyToUInt32(k)>> : k \in AsciiFourChars}

\* C7: for a 4-character ASCII key, the four bytes of SMCKeyToUInt32(key), most
\* significant first, are the key's characters; no other 4-character ASCII key
\* has the same encoding.
C7_RoundTrip ==
    (EncodeReturned /\ IsAscii(key))
        => /\ SplitUInt32(keyUInt) = key
           /\ \A e \in AsciiEncodings : e[2] = keyUInt => e[1] = key

\* C7 happens: an ASCII key of four different characters has been encoded.
C7_Witness ==
    /\ EncodeReturned
    /\ IsAscii(key)
    /\ Cardinality({key[i] : i \in 1..4}) = 4
    /\ SplitUInt32(keyUInt) = key

\* C8: SMCKeyToUInt32 packs any four bytes verbatim, bytes of 128..255 included:
\* the result is b0*2^24 + b1*2^16 + b2*2^8 + b3, each b_i unsigned.
C8_VerbatimPacking ==
    EncodeReturned
        => /\ Hi16(keyUInt) = key[1] * 256 + key[2]
           /\ Lo16(keyUInt) = key[3] * 256 + key[4]

(***************************************************************************)
(* More properties of SMCReadKey.                                          *)
(***************************************************************************)
\* C9: for a key string of more than 4 characters, when SMCReadKey has returned,
\* with any status, val->key is the first 4 characters and a terminator at
\* offset 4, and the key of every request of the call is the encoding of those
\* 4 characters.
C9_LongKeyTruncated ==
    (ReadKeyReturned /\ Len(key) > 4)
        => /\ val.key = <<key[1], key[2], key[3], key[4], 0>>
           /\ \A i \in 1..Len(wire) :
                wire[i].input.key = SMCKeyToUInt32([j \in 0..3 |-> val.key[j + 1]])
           /\ IsAscii(SubSeq(key, 1, 4)) =>
                \A i \in 1..Len(wire) : wire[i].input.key = SubSeq(key, 1, 4)

\* C9 happens: a 5-character key has been read with both requests sent.
C9_Witness ==
    /\ ReadKeyReturned
    /\ Len(key) > 4
    /\ Len(wire) = 2
    /\ atEntry.val = DirtyVal

(***************************************************************************)
(* Properties of SMCOpen.                                                  *)
(***************************************************************************)
OpenReturned == op = "open" /\ pc = "done"
ServiceNotRegistered == osCalls[1].call = "IOServiceGetMatchingService" /\ osCalls[1].object = 0

\* C10: when no matching service is registered, SMCOpen returns
\* kIOReturnNotFound, does not call IOServiceOpen, and leaves the caller's
\* io_connect_t as it was; no connection is opened.
C10_ServiceNotFound ==
    (OpenReturned /\ ServiceNotRegistered)
        => /\ result = kIOReturnNotFound
           /\ \A i \in 1..Len(osCalls) : osCalls[i].call # "IOServiceOpen"
           /\ connOut = atEntry.connOut

\* C10 happens: SMCOpen has returned without a service, the caller's
\* io_connect_t holding a stale value.
C10_Witness ==
    /\ OpenReturned
    /\ ServiceNotRegistered
    /\ atEntry.connOut = 99

ServiceFound == osCalls[1].call = "IOServiceGetMatchingService" /\ osCalls[1].object # 0

\* C11: whenever SMCOpen finds the service, the io_service_t of the lookup is
\* released exactly once before SMCOpen returns, the connection opened or
\* refused; no io_service_t reference stays held after any sequence of calls.
C11_ServiceReleased ==
    /\ (OpenReturned /\ ServiceFound) =>
        /\ Cardinality({i \in 1..Len(osCalls) :
                /\ osCalls[i].call = "IOObjectRelease"
                /\ osCalls[i].object = osCalls[1].object}) = 1
        /\ \E i, j \in 1..Len(osCalls) :
                /\ i < j
                /\ osCalls[i].call = "IOServiceOpen"
                /\ osCalls[j].call = "IOObjectRelease"
    /\ pc \in {"idle", "done"} => held = 0

\* C11 happens: the service was found and the connection refused, with a
\* connection of an earlier SMCOpen still open.
C11_Witness ==
    /\ OpenReturned
    /\ ServiceFound
    /\ result # kIOReturnSuccess
    /\ conns # {}

(***************************************************************************)
(* Properties of SMCGetKeyInfo and of the requests.                        *)
(***************************************************************************)
GetKeyInfoReturned == op = "getKeyInfo" /\ pc = "done"

\* C12: when the service call of SMCGetKeyInfo returns a non-success status,
\* SMCGetKeyInfo returns that status and the caller's keyInfo holds the
\* dataSize, dataType and dataAttributes it held before the call.
C12_KeyInfoUntouchedOnFailure ==
    (GetKeyInfoReturned /\ MetadataFailed)
        => /\ result = wire[1].status
           /\ keyInfo.dataSize = atEntry.keyInfo.dataSize
           /\ keyInfo.dataType = atEntry.keyInfo.dataType
           /\ keyInfo.dataAttributes = atEntry.keyInfo.dataAttributes

\* C12 happens: the call failed with metadata in its response record, the
\* caller's keyInfo holding other values.
C12_Witness ==
    /\ GetKeyInfoReturned
    /\ MetadataFailed
    /\ wire[1].output.keyInfo.dataSize = 4
    /\ atEntry.keyInfo = DirtyKeyInfo

\* C13: the value-read request of SMCReadKey carries the encoded key, command 5
\* and the dataSize of the metadata response of the same call; every other
\* field of the request record is zero.
C13_ReadRequestFields ==
    (op = "readKey" /\ Len(wire) >= 2)
        => /\ wire[2].input.key = keyUInt
           /\ wire[2].input.key = wire[1].input.key
           /\ wire[2].input.data8 = SMC_CMD_READ_BYTES
           /\ wire[2].input.keyInfo.dataSize = wire[1].output.keyInfo.dataSize
           /\ [wire[2].input EXCEPT !.key = ZeroKeyData.key, !.data8 = 0, !.keyInfo.dataSize = 0]
                = ZeroKeyData

\* C13 happens: a value-read request after metadata of size 4, type "flt " and
\* attributes 0x80.
C13_Witness ==
    /\ op = "readKey"
    /\ Len(wire) >= 2
    /\ wire[1].output.keyInfo.dataSize = 4
    /\ wire[1].output.keyInfo.dataAttributes = 128

\* The service requests of the current call are one metadata request, then at
\* most one value-read request when the call is SMCReadKey.
RequestsBounded ==
    /\ op = "getKeyInfo" =>
        /\ Len(wire) = 1
        /\ wire[1].input.data8 = SMC_CMD_READ_KEYINFO
    /\ op = "readKey" =>
        /\ Len(wire) \in 1..2
        /\ wire[1].input.data8 = SMC_CMD_READ_KEYINFO
        /\ Len(wire) = 2 => wire[2].input.data8 = SMC_CMD_READ_BYTES
        /\ pc = "done" => \A i \in 1..Len(wire) : wire[i].status # "pending"

\* C14: nothing is retried: a SMCGetKeyInfo call makes exactly one service
\* request, a SMCReadKey call at most two (the metadata request, then at most
\* one value read); when every service request returns, every SMCReadKey call
\* returns.
C14_NoRetryAndReturns ==
    /\ []RequestsBounded
    /\ (op = "readKey" /\ pc # "done") ~> (op = "readKey" /\ pc = "done")

\* C14 happens: SMCReadKey has returned after a failed value read.
C14_Witness ==
    /\ ReadKeyReturned
    /\ Len(wire) = 2
    /\ ReadFailed

\* C15: the request record SMCGetKeyInfo sends has the given encoded key,
\* command 9 and every other field zero, and the response record it hands to
\* the service is all zero: nothing of what the stack held is sent.
C15_KeyInfoRequestZeroed ==
    (op \in {"getKeyInfo", "readKey"} /\ Len(wire) >= 1)
        => /\ wire[1].input.key = keyUInt
           /\ wire[1].input.data8 = SMC_CMD_READ_KEYINFO
           /\ [wire[1].input EXCEPT !.key = ZeroKeyData.key, !.data8 = 0] = ZeroKeyData
           /\ wire[1].output0 = ZeroKeyData
           /\ wire[1].selector = kSMCHandleYPCEvent

\* C15 happens: SMCGetKeyInfo, called on its own, is in its service call.
C15_Witness ==
    /\ op = "getKeyInfo"
    /\ pc = "info_wait"
    /\ wire[1].status = "pending"
    /\ wire[1].input.key # ZeroKeyData.key

(***************************************************************************)
(* SMCReadKey as a function of its key and of what the service answered.   *)
(***************************************************************************)
\* The status and the SMCVal_t that the key string s and the service's answers
\* w (statuses and response records, in order) determine.
StatusOf(w) == IF w[1].status # kIOReturnSuccess THEN w[1].status ELSE w[2].status
ValOf(s, w) ==
    [key |-> [i \in 1..5 |-> IF i <= 4 /\ i <= Len(s) THEN s[i] ELSE 0],
     dataSize |-> IF w[1].status = kIOReturnSuccess THEN w[1].output.keyInfo.dataSize ELSE 0,
     dataType |-> IF w[1].status = kIOReturnSuccess THEN w[1].output.keyInfo.dataType ELSE 0,
     bytes |-> IF w[1].status = kIOReturnSuccess /\ w[2].status = kIOReturnSuccess
               THEN w[2].output.bytes ELSE ZeroBytes]

\* C16: SMCReadKey keeps no state across calls: the status it returns and the
\* whole of val are determined by the key and the service's answers alone, so
\* two calls with the same key and answers return the same, whatever earlier
\* calls did and whatever val held before.
C16_OutputDeterminedByInputs ==
    ReadKeyReturned
        => /\ Len(wire) = (IF wire[1].status = kIOReturnSuccess THEN 2 ELSE 1)
           /\ result = StatusOf(wire)
           /\ val = ValOf(key, wire)

\* C16 happens: SMCReadKey has returned a failure of the metadata query for a
\* val that was not zero, a connection of an earlier SMCOpen being open.
C16_Witness ==
    /\ ReadKeyReturned
    /\ MetadataFailed
    /\ atEntry.val = DirtyVal
    /\ conns # {}
    /\ Len(key) = 4

\* C17: for every key string, strings of fewer than 4 characters included, the
\* encoded key in the requests of SMCReadKey is SMCKeyToUInt32 of the first 4
\* bytes of val->key, the zero-padded key handed back to the caller.
C17_WireKeyMatchesValKey ==
    (op = "readKey" /\ Len(wire) >= 1)
        => \A i \in 1..Len(wire) :
            wire[i].input.key = SMCKeyToUInt32([j \in 0..3 |-> val.key[j + 1]])

\* C18: val->bytes is written from a response record only when the value read
\* returns success: until then, and when the value read fails whatever bytes
\* its response record holds, val->bytes is all zero.
C18_BytesOnlyOnReadSuccess ==
    op = "readKey" =>
        /\ ~(pc = "done" /\ ReadSucceeded) => val.bytes = ZeroBytes
        /\ val.bytes # ZeroBytes =>
            /\ pc = "done"
            /\ wire[2].input.data8 = SMC_CMD_READ_BYTES
            /\ wire[2].status = kIOReturnSuccess
            /\ val.bytes = wire[2].output.bytes

\* C18 happens: the value read has failed and returned, its response record
\* holding 32 non-zero bytes, as did the response record of the metadata query.
C18_Witness ==
    /\ ReadKeyReturned
    /\ ReadFailed
    /\ outputData.bytes = CountBytes
    /\ giOutput.bytes = CountBytes
    /\ val.bytes = ZeroBytes

====
